---- MODULE Spec2Model ----
(***************************************************************************)
(* The pricing/checkout backend of src/main.py as a state machine.         *)
(*                                                                         *)
(* State: the module-level plan list, the "subscription" collection of the *)
(* document store, the process environment, and the last request together  *)
(* with its response and the store calls it made.  One action per HTTP     *)
(* handler; a handler's nondeterministic inputs (request fields, outcome   *)
(* of the store call, outcome of the database import) are drawn with \E.   *)
(*                                                                         *)
(* Text literals: the emoji that open the diagnostic texts of              *)
(* test_database are written as ASCII tags ("[ok]", "[x]", "[!]"), since   *)
(* a TLA+ string holds ASCII only; the rest of each text is verbatim.      *)
(***************************************************************************)
EXTENDS Integers, Sequences, FiniteSets, TLC

VARIABLES
    plans,          \* the list object bound to PRICING_PLANS
    subscription,   \* the documents of collection "subscription", in insertion order
    environ,        \* os.environ restricted to DATABASE_URL and DATABASE_NAME
    request,        \* the last request: handler, arguments, outcomes of its collaborators
    response,       \* the last response: HTTP status and body
    calls,          \* the store-accessor calls the last request made
    issued,         \* history: the subscription_id of every successful checkout, in order
    inserted        \* history: number of records inserted since the process started

vars == <<plans, subscription, environ, request, response, calls, issued, inserted>>

----------------------------------------------------------------------------
(* Bounds of the model *)

\* checkouts that insert a record, per behaviour
MaxCheckouts == 1
\* records already in the store when the process starts (or none at all)
PreLoaded == 50
\* length of the long error message
LongMsgLen == 60
\* number of collections the store may enumerate
ManyCollections == 12

(* Program constants *)

\* limit=50 in get_user_subscriptions
QueryLimit == 50
\* str(e)[:50] in test_database
ErrChars == 50
\* collections[:10] in test_database
ShownCollections == 10

----------------------------------------------------------------------------
(* Python values *)

\* Optional[T]: None is the empty tuple, a present value v is <<v>>
None == <<>>
Some(v) == <<v>>

\* truth value of an Optional[str]: None and "" are falsy
Truthy(o) == o # None /\ o[1] # ""

\* s[:n]
Take(s, n) == SubSeq(s, 1, IF Len(s) < n THEN Len(s) ELSE n)

RECURSIVE Repeat(_, _)
Repeat(c, n) == IF n = 0 THEN "" ELSE c \o Repeat(c, n - 1)

----------------------------------------------------------------------------
(* The catalog *)

Plan(id, name, price, interval, features, most_popular) ==
    [id |-> id, name |-> name, price |-> price, interval |-> interval,
     features |-> features, most_popular |-> most_popular]

PRICING_PLANS ==
    << Plan("starter", "Starter", 9, "month",
            <<"Unlimited projects", "Community support", "Basic analytics">>,
            FALSE),
       Plan("pro", "Pro", 29, "month",
            <<"Everything in Starter", "Advanced analytics", "Priority support",
              "Team collaboration">>,
            TRUE),
       Plan("business", "Business", 79, "month",
            <<"Everything in Pro", "SLA & SSO", "Audit logs",
              "Dedicated success manager">>,
            FALSE) >>

\* FindPlan with the lookup also matching a plan's display name
FindPlan_by_name_too(catalog, plan_id) ==
    LET hits == {i \in 1..Len(catalog) :
                    catalog[i].id = plan_id \/ catalog[i].name = plan_id}
    IN  IF hits = {} THEN None
        ELSE Some(catalog[CHOOSE i \in hits : \A j \in hits : i <= j])

\* next((p for p in PRICING_PLANS if p.id == plan_id), None)
FindPlan(catalog, plan_id) ==
    LET hits == {i \in 1..Len(catalog) : catalog[i].id = plan_id}
    IN  IF hits = {} THEN None
        ELSE Some(catalog[CHOOSE i \in hits : \A j \in hits : i <= j])

----------------------------------------------------------------------------
(* The document store accessor and the Subscription schema (database.py    *)
(* and schemas.py are not part of the sources; modelled from the           *)
(* specification's collaborator contract and data model)                   *)

Subscription(plan_id, plan_name, price, interval, email, user_id, status) ==
    [plan_id |-> plan_id, plan_name |-> plan_name, price |-> price,
     interval |-> interval, email |-> email, user_id |-> user_id,
     status |-> status]

ObjectId(n) == [oid |-> n]

\* str(ObjectId)
StrId(o) == ToString(o.oid)

\* a record as the store keeps it: its fields and the identifier under "_id"
StoredDoc(record, id) ==
    [f \in DOMAIN record \cup {"_id"} |-> IF f = "_id" THEN id ELSE record[f]]

\* persists one record under a fresh identifier, returns the identifier
create_document(docs, record) ==
    LET id == ObjectId(Len(docs) + 1)
    IN  [docs |-> Append(docs, StoredDoc(record, id)), id |-> StrId(id)]

\* a stored field as an Optional: email is a plain string, user_id is Optional
FieldOf(d, k) == IF k = "user_id" THEN d.user_id ELSE Some(d[k])

Matches(d, filter) ==
    \A k \in DOMAIN filter : FieldOf(d, k) = Some(filter[k])

\* at most `limit` records matching the equality filter, in store order
get_documents(docs, filter, limit) ==
    LET Hit(d) == Matches(d, filter)
    IN  Take(SelectSeq(docs, Hit), limit)

----------------------------------------------------------------------------
(* Inputs *)

\* the clients that check out: one without and one with a Clerk user id
Clients == {[email |-> "a@b.com", user_id |-> None],
            [email |-> "x@y.com", user_id |-> Some("u1")]}
UnknownPlanIds == {"nope", "Pro"}
PlanIds == {"starter", "pro", "business"} \cup UnknownPlanIds

CheckoutRequest ==
    {[plan_id |-> id, email |-> c.email, user_id |-> c.user_id] :
        id \in PlanIds, c \in Clients}

QueryEmails == {None, Some(""), Some("a@b.com")}
QueryUserIds == {None, Some(""), Some("u1")}

EnvValues == {None, Some(""), Some("mongodb://localhost:27017")}
Environments == [{"DATABASE_URL", "DATABASE_NAME"} -> EnvValues]

ShortMsg == "timed out"
LongMsg == Repeat("e", LongMsgLen)
Messages == {ShortMsg, LongMsg}

ManyNames == [i \in 1..ManyCollections |-> "c" \o ToString(i)]

\* outcome of db.list_collection_names()
Enumerations ==
    {[ok |-> TRUE, names |-> n, msg |-> ""] : n \in {<<"subscription">>, ManyNames}}
    \cup {[ok |-> FALSE, names |-> <<>>, msg |-> m] : m \in Messages}

\* database.db: None, or a connection handle
Handles == {None} \cup
    {Some([has_name |-> h, name |-> "appdb", lcn |-> e]) :
        h \in BOOLEAN, e \in Enumerations}

\* outcome of `from database import db`
ImportOk == [kind |-> "ok", msg |-> ""]
ImportFailures ==
    {[kind |-> "ImportError", msg |-> "No module named 'database'"]}
    \cup {[kind |-> "Exception", msg |-> m] : m \in Messages}

\* what one run of test_database meets: a failed import, or the imported db
Diagnoses ==
    {[import |-> i, db |-> None] : i \in ImportFailures}
    \cup {[import |-> ImportOk, db |-> h] : h \in Handles}

----------------------------------------------------------------------------
(* Start: the store is empty, or holds the records of PreLoaded earlier    *)
(* successful checkouts                                                    *)

EarlierRequest(i) ==
    [plan_id |-> PRICING_PLANS[(i % 3) + 1].id,
     email   |-> IF i % 2 = 0 THEN "a@b.com" ELSE "x@y.com",
     user_id |-> IF i % 4 < 2 THEN None ELSE Some("u1")]

\* the store after n successful checkouts: record i is the one
\* create_document stores for the i-th request
Earlier(n) ==
    [i \in 1..n |->
        LET req == EarlierRequest(i)
            p   == FindPlan(PRICING_PLANS, req.plan_id)[1]
        IN  StoredDoc(Subscription(p.id, p.name, p.price, p.interval,
                                   req.email, req.user_id, "active"),
                      ObjectId(i))]

Init ==
    /\ plans = PRICING_PLANS
    /\ \E n \in {0, PreLoaded} :
          /\ subscription = Earlier(n)
          /\ issued = [i \in 1..n |-> StrId(ObjectId(i))]
    /\ environ \in Environments
    /\ request = [op |-> "startup"]
    /\ response = [status |-> 0]
    /\ calls = <<>>
    /\ inserted = 0

----------------------------------------------------------------------------
(* Handlers *)

\* a response the handler returns
Ok(body) == [status |-> 200, body |-> body]

\* raise HTTPException(status_code, detail)
HTTPException(status_code, detail) ==
    [status |-> status_code, body |-> [detail |-> detail]]

\* an exception that leaves the handler: the framework answers 500
Unhandled == [status |-> 500, body |-> [detail |-> "Internal Server Error"]]

read_root ==
    /\ request' = [op |-> "read_root"]
    /\ response' = Ok([message |-> "Hello from FastAPI Backend!"])
    /\ calls' = <<>>
    /\ UNCHANGED <<plans, subscription, environ, issued, inserted>>

\* list_plans sorting the shared list by name before returning it
list_plans_sorted ==
    LET sorted == <<plans[3], plans[2], plans[1]>>
    IN  /\ request' = [op |-> "list_plans"]
        /\ plans' = sorted
        /\ response' = Ok(sorted)
        /\ calls' = <<>>
        /\ UNCHANGED <<subscription, environ, issued, inserted>>

list_plans ==
    /\ request' = [op |-> "list_plans"]
    /\ response' = Ok(plans)
    /\ calls' = <<>>
    /\ UNCHANGED <<plans, subscription, environ, issued, inserted>>

\* NewSubscription with status= left to a "pending" default
NewSubscription_pending(p, req) ==
    Subscription(p.id, p.name, p.price, p.interval, req.email, req.user_id, "pending")

\* the record checkout builds for a request whose plan is p
NewSubscription(p, req) ==
    Subscription(p.id, p.name, p.price, p.interval, req.email, req.user_id, "active")

CheckoutResponse(subscription_id, status, message) ==
    [subscription_id |-> subscription_id, status |-> status, message |-> message]

\* CheckoutMessage interpolating the plan's id
CheckoutMessage_id(p) == "Subscription for " \o p.id \o " activated"

\* f"Subscription for {plan.name} activated"
CheckoutMessage(p) == "Subscription for " \o p.name \o " activated"

\* checkout reusing the record of an identical earlier checkout
checkout_dedup(req, ok) ==
    LET plan == FindPlan(plans, req.plan_id)
    IN  /\ request' = [op |-> "checkout", args |-> req]
        /\ IF plan = None
           THEN /\ response' = HTTPException(404, "Plan not found")
                /\ calls' = <<>>
                /\ UNCHANGED <<subscription, issued, inserted>>
           ELSE LET sub == NewSubscription(plan[1], req)
                    same == {i \in 1..Len(subscription) :
                               [f \in DOMAIN sub |-> subscription[i][f]] = sub}
                    r   == create_document(subscription, sub)
                    id  == IF same = {} THEN r.id
                           ELSE StrId(subscription[CHOOSE i \in same : TRUE]._id)
                    call == [fn |-> "create_document", collection |-> "subscription",
                             data |-> sub]
                IN  IF ok
                    THEN /\ inserted < MaxCheckouts
                         /\ subscription' = IF same = {} THEN r.docs ELSE subscription
                         /\ issued' = Append(issued, id)
                         /\ inserted' = inserted + 1
                         /\ calls' = <<call @@ [raised |-> FALSE, returned |-> id]>>
                         /\ response' = Ok(CheckoutResponse(id, sub.status,
                                                            CheckoutMessage(plan[1])))
                    ELSE /\ calls' = <<call @@ [raised |-> TRUE, returned |-> ""]>>
                         /\ response' = Unhandled
                         /\ UNCHANGED <<subscription, issued, inserted>>
        /\ UNCHANGED <<plans, environ>>

\* checkout replacing the subscription the same email already has
checkout_upsert(req, ok) ==
    LET plan == FindPlan(plans, req.plan_id)
    IN  /\ request' = [op |-> "checkout", args |-> req]
        /\ IF plan = None
           THEN /\ response' = HTTPException(404, "Plan not found")
                /\ calls' = <<>>
                /\ UNCHANGED <<subscription, issued, inserted>>
           ELSE LET sub == NewSubscription(plan[1], req)
                    same == {i \in 1..Len(subscription) :
                               subscription[i].email = req.email}
                    old == CHOOSE i \in same : TRUE
                    r   == create_document(subscription, sub)
                    id  == IF same = {} THEN r.id ELSE StrId(subscription[old]._id)
                    call == [fn |-> "create_document", collection |-> "subscription",
                             data |-> sub]
                IN  IF ok
                    THEN /\ inserted < MaxCheckouts
                         /\ subscription' =
                               IF same = {} THEN r.docs
                               ELSE [subscription EXCEPT
                                       ![old] = StoredDoc(sub, subscription[old]._id)]
                         /\ issued' = Append(issued, id)
                         /\ inserted' = inserted + 1
                         /\ calls' = <<call @@ [raised |-> FALSE, returned |-> id]>>
                         /\ response' = Ok(CheckoutResponse(id, sub.status,
                                                            CheckoutMessage(plan[1])))
                    ELSE /\ calls' = <<call @@ [raised |-> TRUE, returned |-> ""]>>
                         /\ response' = Unhandled
                         /\ UNCHANGED <<subscription, issued, inserted>>
        /\ UNCHANGED <<plans, environ>>

\* ok: whether create_document succeeds; when it raises nothing is persisted
\* and the exception leaves the handler
checkout(req, ok) ==
    LET plan == FindPlan(plans, req.plan_id)
    IN  /\ request' = [op |-> "checkout", args |-> req]
        /\ IF plan = None
           THEN /\ response' = HTTPException(404, "Plan not found")
                /\ calls' = <<>>
                /\ UNCHANGED <<subscription, issued, inserted>>
           ELSE LET sub == NewSubscription(plan[1], req)
                    r   == create_document(subscription, sub)
                    call == [fn |-> "create_document", collection |-> "subscription",
                             data |-> sub]
                IN  IF ok
                    THEN /\ inserted < MaxCheckouts
                         /\ subscription' = r.docs
                         /\ issued' = Append(issued, r.id)
                         /\ inserted' = inserted + 1
                         /\ calls' = <<call @@
                                       [raised |-> FALSE, returned |-> r.id]>>
                         /\ response' = Ok(CheckoutResponse(r.id, sub.status,
                                                            CheckoutMessage(plan[1])))
                    ELSE /\ calls' = <<call @@ [raised |-> TRUE, returned |-> ""]>>
                         /\ response' = Unhandled
                         /\ UNCHANGED <<subscription, issued, inserted>>
        /\ UNCHANGED <<plans, environ>>

\* FilterDict with the second test written as elif
FilterDict_elif(email, user_id) ==
    IF Truthy(user_id) THEN [user_id |-> user_id[1]]
    ELSE IF Truthy(email) THEN [email |-> email[1]]
    ELSE <<>>

\* filter_dict: a key for each argument that is truthy
FilterDict(email, user_id) ==
    LET args == [user_id |-> user_id, email |-> email]
    IN  [k \in {k \in {"user_id", "email"} : Truthy(args[k])} |-> args[k][1]]

\* d["_id"] = str(d["_id"]), on the handler's own copy of the document
Stringified(docs) == [i \in 1..Len(docs) |-> [docs[i] EXCEPT !._id = StrId(@)]]

\* ok: whether get_documents succeeds
get_user_subscriptions(email, user_id, ok) ==
    LET filter_dict == FilterDict(email, user_id)
        docs == get_documents(subscription, filter_dict, QueryLimit)
        call == [fn |-> "get_documents", collection |-> "subscription",
                 filter |-> filter_dict, limit |-> QueryLimit, raised |-> ~ok]
    IN  /\ request' = [op |-> "get_subscriptions", email |-> email, user_id |-> user_id]
        /\ calls' = <<call>>
        /\ response' = IF ok THEN Ok([items |-> Stringified(docs)]) ELSE Unhandled
        /\ UNCHANGED <<plans, subscription, environ, issued, inserted>>

\* DatabaseReport without the else branch for db None
DatabaseReport_no_else(imp, db) ==
    LET r0 == [backend |-> "[ok] Running",
               database |-> "[x] Not Available",
               database_url |-> None,
               database_name |-> None,
               connection_status |-> "Not Connected",
               collections |-> <<>>]
    IN  IF imp.kind = "ImportError"
        THEN [r0 EXCEPT !.database =
                 "[x] Database module not found (run enable-database first)"]
        ELSE IF imp.kind = "Exception"
        THEN [r0 EXCEPT !.database = "[x] Error: " \o Take(imp.msg, ErrChars)]
        ELSE IF db # None
        THEN LET h == db[1]
                 r1 == [r0 EXCEPT
                          !.database = "[ok] Available",
                          !.database_url = "[ok] Configured",
                          !.database_name =
                              IF h.has_name THEN h.name ELSE "[ok] Connected",
                          !.connection_status = "Connected"]
             IN  IF h.lcn.ok
                 THEN [r1 EXCEPT
                         !.collections = Take(h.lcn.names, ShownCollections),
                         !.database = "[ok] Connected & Working"]
                 ELSE [r1 EXCEPT !.database =
                         "[!]  Connected but Error: " \o Take(h.lcn.msg, ErrChars)]
        ELSE r0

\* the report as it stands when the try statement is left (lines 140-172)
DatabaseReport(imp, db) ==
    LET r0 == [backend |-> "[ok] Running",
               database |-> "[x] Not Available",
               database_url |-> None,
               database_name |-> None,
               connection_status |-> "Not Connected",
               collections |-> <<>>]
    IN  IF imp.kind = "ImportError"
        THEN [r0 EXCEPT !.database =
                 "[x] Database module not found (run enable-database first)"]
        ELSE IF imp.kind = "Exception"
        THEN [r0 EXCEPT !.database = "[x] Error: " \o Take(imp.msg, ErrChars)]
        ELSE IF db # None
        THEN LET h == db[1]
                 r1 == [r0 EXCEPT
                          !.database = "[ok] Available",
                          !.database_url = "[ok] Configured",
                          !.database_name =
                              IF h.has_name THEN h.name ELSE "[ok] Connected",
                          !.connection_status = "Connected"]
             IN  IF h.lcn.ok
                 THEN [r1 EXCEPT
                         !.collections = Take(h.lcn.names, ShownCollections),
                         !.database = "[ok] Connected & Working"]
                 ELSE [r1 EXCEPT !.database =
                         "[!]  Connected but Error: " \o Take(h.lcn.msg, ErrChars)]
        ELSE [r0 EXCEPT !.database = "[!]  Available but not initialized"]

\* os.getenv(name)
Getenv(env, name) == env[name]

\* EnvFlags that keeps what the connected branch wrote
EnvFlags_keep_connected(r, env) ==
    IF r.connection_status = "Connected" THEN r
    ELSE [r EXCEPT
            !.database_url =
                IF Truthy(Getenv(env, "DATABASE_URL")) THEN "[ok] Set" ELSE "[x] Not Set",
            !.database_name =
                IF Truthy(Getenv(env, "DATABASE_NAME")) THEN "[ok] Set" ELSE "[x] Not Set"]

\* the two assignments after the try statement (lines 176-177)
EnvFlags(r, env) ==
    [r EXCEPT
       !.database_url =
           IF Truthy(Getenv(env, "DATABASE_URL")) THEN "[ok] Set" ELSE "[x] Not Set",
       !.database_name =
           IF Truthy(Getenv(env, "DATABASE_NAME")) THEN "[ok] Set" ELSE "[x] Not Set"]

\* test_database catching ImportError only
test_database_uncaught(d) ==
    /\ request' = [op |-> "test_database", import |-> d.import, db |-> d.db]
    /\ response' = IF d.import.kind = "Exception" THEN Unhandled
                   ELSE Ok(EnvFlags(DatabaseReport(d.import, d.db), environ))
    /\ calls' = <<>>
    /\ UNCHANGED <<plans, subscription, environ, issued, inserted>>

test_database(d) ==
    /\ request' = [op |-> "test_database", import |-> d.import, db |-> d.db]
    /\ response' = Ok(EnvFlags(DatabaseReport(d.import, d.db), environ))
    /\ calls' = <<>>
    /\ UNCHANGED <<plans, subscription, environ, issued, inserted>>

Next ==
    \/ read_root
    \/ list_plans
    \/ \E req \in CheckoutRequest, ok \in BOOLEAN : checkout(req, ok)
    \/ \E email \in QueryEmails, user_id \in QueryUserIds, ok \in BOOLEAN :
          get_user_subscriptions(email, user_id, ok)
    \/ \E d \in Diagnoses : test_database(d)

Spec == Init /\ [][Next]_vars

----------------------------------------------------------------------------
(* Properties *)

CatalogIds == {"starter", "pro", "business"}

IsCheckout == request.op = "checkout"
IsQuery == request.op = "get_subscriptions"
IsDiagnosis == request.op = "test_database"

LastDoc == subscription[Len(subscription)]

\* C1: a checkout whose plan_id is no id of the catalog answers 404 with
\* detail "Plan not found", calls create_document not at all and leaves the
\* subscription collection as it was.
C1_UnknownPlanRejected ==
    [][ (request'.op = "checkout" /\ request'.args.plan_id \notin CatalogIds)
        => /\ response' = [status |-> 404, body |-> [detail |-> "Plan not found"]]
           /\ calls' = <<>>
           /\ subscription' = subscription
           /\ issued' = issued ]_vars

C1_Witness ==
    /\ IsCheckout
    /\ request.args.plan_id = "Pro"
    /\ response.status = 404
    /\ Len(subscription) > 0

ExpectedMessage ==
    [starter  |-> "Subscription for Starter activated",
     pro      |-> "Subscription for Pro activated",
     business |-> "Subscription for Business activated"]

\* C2: a checkout of a catalog plan calls create_document once and, when
\* that call succeeds, returns status "active", the message "Subscription
\* for <name> activated" for the plan's name, and as subscription_id the
\* identifier create_document returned for the record this call inserted.
C2_CheckoutSucceeds ==
    (IsCheckout /\ request.args.plan_id \in CatalogIds)
    => /\ Len(calls) = 1
       /\ calls[1].fn = "create_document"
       /\ calls[1].collection = "subscription"
       /\ ~calls[1].raised
          => /\ response.status = 200
             /\ DOMAIN response.body = {"subscription_id", "status", "message"}
             /\ response.body.status = "active"
             /\ response.body.message = ExpectedMessage[request.args.plan_id]
             /\ response.body.subscription_id = calls[1].returned
             /\ Len(subscription) > 0
             /\ StrId(LastDoc._id) = response.body.subscription_id
             /\ LastDoc = StoredDoc(calls[1].data, LastDoc._id)

C2_Witness ==
    /\ IsCheckout
    /\ request.args.plan_id = "pro"
    /\ request.args.email = "x@y.com"
    /\ response.status = 200
    /\ response.body.message = "Subscription for Pro activated"

\* the request fields a stored record carries
Purchase(d) == [plan_id |-> d.plan_id, email |-> d.email, user_id |-> d.user_id]

\* C3: every successful checkout inserted its own record and received an
\* identifier no other successful checkout received: the collection has as
\* many records as there were successful checkouts, record i carries the
\* i-th identifier issued, and the identifiers are pairwise different.
C3_NoDeduplication ==
    /\ Len(subscription) = Len(issued)
    /\ \A i \in 1..Len(issued) : StrId(subscription[i]._id) = issued[i]
    /\ \A i, j \in 1..Len(issued) : i # j => issued[i] # issued[j]

C3_Witness ==
    /\ inserted > 0
    /\ IsCheckout
    /\ response.status = 200
    /\ \E i \in 1..(Len(subscription) - 1) :
          /\ Purchase(subscription[i]) = Purchase(LastDoc)
          /\ issued[i] # response.body.subscription_id

\* C4: the catalog is always the declared one: 3 plans with ids starter,
\* pro, business in that order, pairwise distinct, pro the only one marked
\* most popular; list_plans returns it in that order.
C4_CatalogFixed ==
    /\ plans = PRICING_PLANS
    /\ Len(plans) = 3
    /\ [i \in 1..3 |-> plans[i].id] = <<"starter", "pro", "business">>
    /\ \A i, j \in 1..3 : i # j => plans[i].id # plans[j].id
    /\ {i \in 1..3 : plans[i].most_popular} = {2}
    /\ request.op = "list_plans"
       => /\ response.status = 200
          /\ response.body = plans
          /\ [i \in 1..Len(response.body) |-> response.body[i].id]
                = <<"starter", "pro", "business">>

C4_Witness ==
    /\ request.op = "list_plans"
    /\ inserted > 0
    /\ response.body[2].most_popular

\* whether a query argument is supplied with a non-empty value
Given(arg) == arg # None /\ arg # Some("")

\* the limit, the collection and the shape of the call a query makes, and
\* the bound on its answer
QueryCallShape ==
    /\ Len(calls) = 1
    /\ calls[1].fn = "get_documents"
    /\ calls[1].collection = "subscription"
    /\ calls[1].limit = 50
    /\ DOMAIN calls[1].filter \subseteq {"email", "user_id"}
    /\ response.status = 200 => Len(response.body.items) <= 50

\* C5 as stated: the filter constrains email (user_id) exactly when the
\* argument is supplied, the empty string included; the limit is 50, the
\* answer has at most 50 items and each matches every supplied argument.
C5_AsStated ==
    IsQuery
    => /\ QueryCallShape
       /\ ("email" \in DOMAIN calls[1].filter) <=> (request.email # None)
       /\ ("user_id" \in DOMAIN calls[1].filter) <=> (request.user_id # None)
       /\ \A k \in DOMAIN calls[1].filter : calls[1].filter[k] = request[k][1]
       /\ response.status = 200
          => \A i \in 1..Len(response.body.items) :
                /\ request.email # None
                   => response.body.items[i].email = request.email[1]
                /\ request.user_id # None
                   => response.body.items[i].user_id = request.user_id

\* C5 (amended): the filter constrains email (user_id) exactly when the
\* argument is supplied with a non-empty value, and is empty otherwise; the
\* limit is 50, the answer has at most 50 items and each matches every
\* argument supplied with a non-empty value.
C5_FilterFromNonEmpty ==
    IsQuery
    => /\ QueryCallShape
       /\ ("email" \in DOMAIN calls[1].filter) <=> Given(request.email)
       /\ ("user_id" \in DOMAIN calls[1].filter) <=> Given(request.user_id)
       /\ \A k \in DOMAIN calls[1].filter : calls[1].filter[k] = request[k][1]
       /\ response.status = 200
          => \A i \in 1..Len(response.body.items) :
                /\ Given(request.email)
                   => response.body.items[i].email = request.email[1]
                /\ Given(request.user_id)
                   => response.body.items[i].user_id = request.user_id

\* an empty email and no user id: nothing constrains, and the cap cuts the
\* answer short of the stored records
C5_Witness ==
    /\ IsQuery
    /\ request.email = Some("")
    /\ request.user_id = None
    /\ DOMAIN calls[1].filter = {}
    /\ response.status = 200
    /\ Len(response.body.items) = 50
    /\ Len(subscription) > 50
    /\ \E i \in 1..50 : response.body.items[i].email # ""

ReportFields ==
    {"backend", "database", "database_url", "database_name",
     "connection_status", "collections"}

\* C6: test_database always returns a report with the six fields, whatever
\* the outcome of its steps, and a failed step is recorded in the report's
\* database text.
C6_DiagnosisNeverRaises ==
    IsDiagnosis
    => /\ response.status = 200
       /\ DOMAIN response.body = ReportFields
       /\ request.import.kind = "ImportError"
          => response.body.database
                = "[x] Database module not found (run enable-database first)"
       /\ request.import.kind = "Exception"
          => response.body.database = "[x] Error: " \o Take(request.import.msg, 50)
       /\ (request.import.kind = "ok" /\ request.db = None)
          => response.body.database = "[!]  Available but not initialized"
       /\ (request.import.kind = "ok" /\ request.db # None)
          => IF request.db[1].lcn.ok
             THEN response.body.database = "[ok] Connected & Working"
             ELSE response.body.database
                    = "[!]  Connected but Error: " \o Take(request.db[1].lcn.msg, 50)

C6_Witness ==
    /\ IsDiagnosis
    /\ request.import.kind = "Exception"
    /\ response.status = 200
    /\ response.body.database = "[x] Error: timed out"

StartsWith(s, prefix) ==
    Len(s) >= Len(prefix) /\ SubSeq(s, 1, Len(prefix)) = prefix

\* a text made of a prefix and at most 50 characters of a message
Truncated(s, prefix) == StartsWith(s, prefix) /\ Len(s) <= Len(prefix) + 50

StatusNotFound(s) == s = "[x] Database module not found (run enable-database first)"
StatusUninitialized(s) == s = "[!]  Available but not initialized"
StatusConnected(s) == s = "[ok] Connected & Working"
StatusConnectedWithError(s) == Truncated(s, "[!]  Connected but Error: ")
StatusImportError(s) == Truncated(s, "[x] Error: ")

\* C7 as stated: the database status of a report is one of four: not
\* found, available but not initialized, connected, connected with error.
C7_AsStated ==
    IsDiagnosis
    => \/ StatusNotFound(response.body.database)
       \/ StatusUninitialized(response.body.database)
       \/ StatusConnected(response.body.database)
       \/ StatusConnectedWithError(response.body.database)

\* C7 (amended): the database status of a report is one of five: the four
\* of the claim, or the import-error status "Error: <message>" (message cut
\* to 50 characters) when importing db raises something else than
\* ImportError; the initial "Not Available" is never the final status.
C7_FiveStatuses ==
    IsDiagnosis
    => /\ response.status = 200
       /\ \/ StatusNotFound(response.body.database)
          \/ StatusUninitialized(response.body.database)
          \/ StatusConnected(response.body.database)
          \/ StatusConnectedWithError(response.body.database)
          \/ StatusImportError(response.body.database)
       /\ StatusImportError(response.body.database)
          <=> request.import.kind = "Exception"

C7_Witness ==
    /\ IsDiagnosis
    /\ request.import.kind = "ok"
    /\ request.db # None
    /\ ~request.db[1].lcn.ok
    /\ Len(request.db[1].lcn.msg) > 50
    /\ StatusConnectedWithError(response.body.database)
    /\ Len(response.body.database) = Len("[!]  Connected but Error: ") + 50

\* C8: the subscription collection only grows, and only by a successful
\* checkout, which appends exactly one record; every other step leaves it
\* as it was.
C8_AppendOnly ==
    [][ /\ \/ subscription' = subscription
           \/ /\ request'.op = "checkout"
              /\ response'.status = 200
              /\ Len(subscription') = Len(subscription) + 1
              /\ SubSeq(subscription', 1, Len(subscription)) = subscription
        /\ (request'.op = "checkout" /\ response'.status = 200)
           => Len(subscription') = Len(subscription) + 1 ]_vars

C8_Witness ==
    /\ inserted > 0
    /\ IsQuery
    /\ response.status = 200
    /\ Len(response.body.items) > 0
    /\ \A i \in 1..Len(subscription) : subscription[i]._id = ObjectId(i)

\* C9: every stored record has status "active" and the id, name, price and
\* interval of one catalog plan; the record a successful checkout inserted
\* carries the email and user_id of its request.
C9_RecordsValid ==
    /\ \A i \in 1..Len(subscription) :
          /\ subscription[i].status = "active"
          /\ subscription[i].plan_id \in CatalogIds
          /\ \E k \in 1..Len(PRICING_PLANS) :
                /\ PRICING_PLANS[k].id = subscription[i].plan_id
                /\ PRICING_PLANS[k].name = subscription[i].plan_name
                /\ PRICING_PLANS[k].price = subscription[i].price
                /\ PRICING_PLANS[k].interval = subscription[i].interval
    /\ (IsCheckout /\ response.status = 200)
       => /\ LastDoc.plan_id = request.args.plan_id
          /\ LastDoc.email = request.args.email
          /\ LastDoc.user_id = request.args.user_id

C9_Witness ==
    /\ IsCheckout
    /\ response.status = 200
    /\ LastDoc.plan_id = "business"
    /\ LastDoc.price = 79
    /\ LastDoc.user_id = Some("u1")

Flag(value) == IF value # None /\ value # Some("") THEN "[ok] Set" ELSE "[x] Not Set"

\* C10: in a report database_url and database_name say whether
\* DATABASE_URL and DATABASE_NAME are set to a non-empty value, whatever
\* the state of the connection; database_name is never the connection's
\* own name.
C10_PresenceFlags ==
    IsDiagnosis
    => /\ response.body.database_url = Flag(environ["DATABASE_URL"])
       /\ response.body.database_name = Flag(environ["DATABASE_NAME"])
       /\ response.body.database_name # "appdb"

C10_Witness ==
    /\ IsDiagnosis
    /\ request.import.kind = "ok"
    /\ request.db # None
    /\ request.db[1].has_name
    /\ request.db[1].lcn.ok
    /\ environ["DATABASE_NAME"] = Some("")
    /\ environ["DATABASE_URL"] = Some("mongodb://localhost:27017")
    /\ response.body.database_name = "[x] Not Set"
    /\ response.body.database_url = "[ok] Set"

====
